---- MODULE Spec2Model ----
(***************************************************************************)
(* Model of smart_physics_tutor.py: the PhysicsFormulaValidator engine     *)
(* (rule store, regex parsers, constraint checks, evaluation, message      *)
(* assembly) and the Flask /validate route with its mastery counter.       *)
(*                                                                         *)
(* Strings that the code inspects character by character (the formula) are *)
(* sequences of one-character strings.  Regular expressions are sequences  *)
(* of tokens matched by a prefix matcher, as re.match does.  Python floats *)
(* are signed decimals m * 10^e with the binary64 overflow and underflow   *)
(* thresholds; rounding error below 1 ulp is not modelled.                 *)
(***************************************************************************)
EXTENDS Integers, Sequences, FiniteSets, TLC

VARIABLES validators, mastery_level, pc, formula_type, formula, outcome,
          steps, operands, result, response, t_pc, t_outcome, t_tmp, served

vars == <<validators, mastery_level, pc, formula_type, formula, outcome,
          steps, operands, result, response, t_pc, t_outcome, t_tmp, served>>

(***************************************************************************)
(* Bounds of the model.                                                    *)
(***************************************************************************)
\* operand literals are the one-digit integers 0..MaxDigit plus the special
\* literals below
MaxDigit == 2
\* number of server threads handling /validate concurrently (SpecThreads)
NumThreads == 2
\* number of requests served in one run of SpecThreads
MaxRequests == 3

(***************************************************************************)
(* Characters and strings.                                                 *)
(***************************************************************************)
DigitChars == <<"0", "1", "2", "3", "4", "5", "6", "7", "8", "9">>

Digits == {DigitChars[i] : i \in 1..10}

DigitVal(c) == (CHOOSE i \in 1..10 : DigitChars[i] = c) - 1

Repeat(c, n) == [i \in 1..n |-> c]

\* s[i..j-1]
Slice(s, i, j) == [k \in 1..(j - i) |-> s[i + k - 1]]

\* formula.replace(' ', ''): only the space character U+0020 is removed
StripSpaces(s) == SelectSeq(s, LAMBDA c : c # " ")

(***************************************************************************)
(* Python float: [k, neg, m, e] is (-1)^neg * m * 10^e for k = "fin".      *)
(***************************************************************************)
\* integer digits of the largest finite binary64, 1.7976931348623157e308
DBL_MAX_DIGITS == 309
\* its first nine significant digits
DBL_MAX_LEAD9 == 179769313
\* decimal position of half the smallest denormal, 2.4703282292062327e-324
DBL_TINY_DIGITS == -323
\* its first nine significant digits
DBL_TINY_LEAD9 == 247032822

Fin(neg, m, e) == [k |-> "fin", neg |-> neg, m |-> m, e |-> e]
Inf(neg) == [k |-> "inf", neg |-> neg, m |-> 0, e |-> 0]
NaN == [k |-> "nan", neg |-> FALSE, m |-> 0, e |-> 0]
\* Python None where a float is expected (no value computed)
NoValue == [k |-> "none", neg |-> FALSE, m |-> 0, e |-> 0]

RECURSIVE Pow10(_)
Pow10(n) == IF n = 0 THEN 1 ELSE 10 * Pow10(n - 1)

RECURSIVE NumDigits(_)
NumDigits(m) == IF m < 10 THEN 1 ELSE 1 + NumDigits(m \div 10)

\* the decimal m * 10^e with trailing zeros of m moved into e
RECURSIVE Normalize(_, _, _)
Normalize(neg, m, e) ==
  IF m = 0 THEN Fin(neg, 0, 0)
  ELSE IF m % 10 = 0 THEN Normalize(neg, m \div 10, e + 1)
  ELSE Fin(neg, m, e)

\* the normalized decimal n, d its number of digits, clamped to the binary64
\* range: infinity above it, zero below it (mantissas have at most nine digits)
ClampRange(n, d) ==
  IF n.m = 0 THEN n
  ELSE IF d + n.e > DBL_MAX_DIGITS
          \/ (d + n.e = DBL_MAX_DIGITS /\ n.m * Pow10(9 - d) > DBL_MAX_LEAD9)
    THEN Inf(n.neg)
  ELSE IF d + n.e < DBL_TINY_DIGITS
          \/ (d + n.e = DBL_TINY_DIGITS /\ n.m * Pow10(9 - d) <= DBL_TINY_LEAD9)
    THEN Fin(n.neg, 0, 0)
  ELSE n

Clamp(n) == ClampRange(n, NumDigits(n.m))

\* the nearest binary64 to (-1)^neg * m * 10^e
FloatOf(neg, m, e) == Clamp(Normalize(neg, m, e))

IsZero(a) == a.k = "fin" /\ a.m = 0
\* a < 0
LtZero(a) == a.k \in {"fin", "inf"} /\ a.neg /\ ~IsZero(a)
\* a <= 0
LeZero(a) == IsZero(a) \/ LtZero(a)

\* a * b
FloatMul(a, b) ==
  IF a.k = "nan" \/ b.k = "nan" THEN NaN
  ELSE IF a.k = "inf" \/ b.k = "inf"
    THEN IF IsZero(a) \/ IsZero(b) THEN NaN ELSE Inf(a.neg # b.neg)
  ELSE FloatOf(a.neg # b.neg, a.m * b.m, a.e + b.e)

\* a ** 2, given p = a * a: float_pow raises OverflowError when a finite
\* result is out of range, where a * a gives inf
SquareOrRaise(a, p) ==
  IF a.k = "fin" /\ p.k = "inf"
    THEN [raised |-> TRUE, value |-> NoValue]
    ELSE [raised |-> FALSE, value |-> p]

FloatSquare(a) == SquareOrRaise(a, FloatMul(a, a))

\* the literal 0.5
Half == Fin(FALSE, 5, -1)

\* value of a run of decimal digits, leading zeros allowed
RECURSIVE DigitsToInt(_)
DigitsToInt(ds) ==
  IF ds = <<>> THEN 0
  ELSE 10 * DigitsToInt(SubSeq(ds, 1, Len(ds) - 1)) + DigitVal(ds[Len(ds)])

SetMin(S) == CHOOSE x \in S : \A y \in S : x <= y
SetMax(S) == CHOOSE x \in S : \A y \in S : x >= y

\* nonzero is the set of positions in all of the digits other than 0
ParseDigits(neg, all, fracLen, nonzero) ==
  IF nonzero = {} THEN Fin(neg, 0, 0)
  ELSE FloatOf(neg, DigitsToInt(SubSeq(all, SetMin(nonzero), SetMax(nonzero))),
               Len(all) - SetMax(nonzero) - fracLen)

\* all is the integer and the fraction digits together, fracLen of them
\* fraction digits
ParseAll(neg, all, fracLen) ==
  ParseDigits(neg, all, fracLen, {i \in 1..Len(all) : all[i] # "0"})

\* body is digits[.digits], dot the position of its dot (Len(body) + 1
\* when it has none)
ParseSplit(neg, body, dot) ==
  ParseAll(neg,
           SubSeq(body, 1, dot - 1) \o SubSeq(body, dot + 1, Len(body)),
           IF dot > Len(body) THEN 0 ELSE Len(body) - dot)

ParseUnsigned(neg, body) ==
  ParseSplit(neg, body,
             SetMin({i \in 1..Len(body) : body[i] = "."} \cup {Len(body) + 1}))

\* float(text) for text of the form [-]digits[.digits]
ParseFloat(text) ==
  IF text # <<>> /\ text[1] = "-" THEN ParseUnsigned(TRUE, Tail(text))
  ELSE ParseUnsigned(FALSE, text)

\* the decimal a rounded to a multiple of 1/100, q = 10^(-a.e - 2)
RoundTo(a, q) ==
  IF 2 * (a.m % q) > q \/ (2 * (a.m % q) = q /\ (a.m \div q) % 2 = 1)
    THEN Normalize(a.neg, (a.m \div q) + 1, -2)
    ELSE Normalize(a.neg, a.m \div q, -2)

\* f"{x:.2f}": the decimal shown.  A tie that is no binary fraction is
\* decided by the rounding error of the float; no operand of the model
\* produces one.
Format2f(a) ==
  IF a.k # "fin" \/ a.e >= -2 THEN a
  ELSE IF NumDigits(a.m) + a.e <= -3 THEN Fin(a.neg, 0, 0)
  ELSE RoundTo(a, Pow10((-a.e) - 2))

(***************************************************************************)
(* Regular expressions: a pattern is a sequence of tokens, matched from    *)
(* the start of the string and not required to consume it (re.match).      *)
(*   Lit(c)  the character c          (F, =, \*, \^, ...)                  *)
(*   AnyChar .   any character except a newline                            *)
(*   Num     (\d+(\.\d+)?)  a capturing group                              *)
(***************************************************************************)
Lit(c) == [t |-> "lit", c |-> c]
AnyChar == [t |-> "any", c |-> ""]
Num == [t |-> "num", c |-> ""]

\* position after the longest run of digits starting at i
DigitsEnd(s, i) ==
  LET others == {j \in i..Len(s) : s[j] \notin Digits}
  IN IF others = {} THEN Len(s) + 1 ELSE SetMin(others)

\* position after \d+(\.\d+)? at i, or 0 when it does not match: d is the
\* position after the integer digits.  No token that follows Num in the
\* patterns below matches a digit or a dot, so the greedy match is the one
\* the backtracking matcher returns.
FractionEnd(s, i, d) ==
  IF d = i THEN 0
  ELSE IF d < Len(s) /\ s[d] = "." /\ s[d + 1] \in Digits THEN DigitsEnd(s, d + 1)
  ELSE d

NumEnd(s, i) == FractionEnd(s, i, DigitsEnd(s, i))

\* position after token tok at i, or 0
TokenEnd(tok, s, i) ==
  IF tok.t = "num" THEN NumEnd(s, i)
  ELSE IF i > Len(s) THEN 0
  ELSE IF tok.t = "lit" THEN (IF s[i] = tok.c THEN i + 1 ELSE 0)
  ELSE (IF s[i] # "\n" THEN i + 1 ELSE 0)

\* re.match(pattern, s): [ok, groups], groups the texts captured by the Num
\* tokens in order (match.group(1), match.group(3), match.group(5))
RECURSIVE MatchFrom(_, _, _, _, _)
\* j is the position after token k, matched at i
MatchNext(pattern, k, s, i, groups, j) ==
  IF j = 0 THEN [ok |-> FALSE, groups |-> <<>>]
  ELSE MatchFrom(pattern, k + 1, s, j,
                 IF pattern[k].t = "num" THEN Append(groups, Slice(s, i, j))
                 ELSE groups)

MatchFrom(pattern, k, s, i, groups) ==
  IF k > Len(pattern) THEN [ok |-> TRUE, groups |-> groups]
  ELSE MatchNext(pattern, k, s, i, groups, TokenEnd(pattern[k], s, i))

re_match(pattern, s) == MatchFrom(pattern, 1, s, 1, <<>>)

(***************************************************************************)
(* The four formula types and the regular expressions of their parsers.    *)
(***************************************************************************)
Newton == "NewtonSecondLawValidator"
Kinetic == "KineticEnergyValidator"
Ohms == "OhmsLawValidator"
IdealGas == "IdealGasLawValidator"

formula_validators == {Newton, Kinetic, Ohms, IdealGas}

\* r'F=(\d+(\.\d+)?)\*(\d+(\.\d+)?)'
NewtonRegex == <<Lit("F"), Lit("="), Num, Lit("*"), Num>>

\* r'KE=0.5\*(\d+(\.\d+)?)\*(\d+(\.\d+)?)\^2': the dot between 0 and 5 is
\* not escaped
KineticRegex ==
  <<Lit("K"), Lit("E"), Lit("="), Lit("0"), AnyChar, Lit("5"), Lit("*"),
    Num, Lit("*"), Num, Lit("^"), Lit("2")>>

\* r'V=(\d+(\.\d+)?)\*(\d+(\.\d+)?)'
OhmsRegex == <<Lit("V"), Lit("="), Num, Lit("*"), Num>>

\* r'PV=(\d+(\.\d+)?)\*(\d+(\.\d+)?)\*(\d+(\.\d+)?)'
IdealGasRegex ==
  <<Lit("P"), Lit("V"), Lit("="), Num, Lit("*"), Num, Lit("*"), Num>>

(***************************************************************************)
(* Constraint texts and error messages.                                    *)
(***************************************************************************)
MassConstraint == "Mass (m) must be a positive number greater than 0"
VelocityConstraint == "Velocity (v) must be non-negative"
CurrentConstraint == "Current (I) must be non-negative"
ResistanceConstraint == "Resistance (R) must be a positive number greater than 0"
MolesConstraint == "Number of Moles (n) must be a positive number greater than 0"
GasConstantConstraint == "Gas Constant (R) must be a positive number greater than 0"
TemperatureConstraint ==
  "Temperature (T) must be non-negative (absolute temperature in Kelvin)"

MassError == "Mass must be a positive number greater than 0"
VelocityError == "Velocity must be non-negative"
CurrentError == "Current must be non-negative"
ResistanceError == "Resistance must be a positive number greater than 0"
MolesError == "Number of moles must be a positive number greater than 0"
GasConstantError == "Gas constant must be a positive number greater than 0"
TemperatureError ==
  "Temperature must be non-negative (absolute temperature in Kelvin)"

\* x in list
InList(x, list) == \E i \in 1..Len(list) : list[i] = x

\* what a strategy hands back: it returned (force, {...}), or raised
StrategyOk(st, ops, value) ==
  [status |-> "ok", error |-> "", steps |-> st, operands |-> ops, result |-> value]
StrategyRaise(kind, text, st, ops) ==
  [status |-> kind, error |-> text, steps |-> st, operands |-> ops, result |-> NoValue]

NoOperands == <<>>

(***************************************************************************)
(* The validation strategies.  vs is self.validators; formula has had its  *)
(* spaces removed.  steps records, in order, what the call did: "parse",   *)
(* one "check <operand>" per numeric check made, then "evaluate".          *)
(***************************************************************************)
value_constraints_of(vs, ft) ==
  IF ft \in DOMAIN vs THEN vs[ft].value_constraints ELSE <<>>

\* the steps of a strategy that has parsed and made the first n of the
\* checks names, those among them whose constraint text is in vc
RECURSIVE ChecksMade(_, _, _, _)
ChecksMade(vc, texts, names, n) ==
  IF n = 0 THEN <<"parse">>
  ELSE ChecksMade(vc, texts, names, n - 1)
       \o (IF InList(texts[n], vc) THEN <<names[n]>> ELSE <<>>)

NewtonSteps(vc, n) == ChecksMade(vc, <<MassConstraint>>, <<"check mass">>, n)

\* NewtonValues with the mass check written mass < 0
NewtonValues_MassLtZero(vc, mass, acceleration) ==
  IF InList(MassConstraint, vc) /\ LtZero(mass)
    THEN StrategyRaise("ValueError", MassError, NewtonSteps(vc, 1),
                       [mass |-> mass, acceleration |-> acceleration])
  ELSE StrategyOk(Append(NewtonSteps(vc, 1), "evaluate"),
                  [mass |-> mass, acceleration |-> acceleration],
                  FloatMul(mass, acceleration))

\* the body of _validate_newton_second_law after its two float() calls
NewtonValues(vc, mass, acceleration) ==
  IF InList(MassConstraint, vc) /\ LeZero(mass)
    THEN StrategyRaise("ValueError", MassError, NewtonSteps(vc, 1),
                       [mass |-> mass, acceleration |-> acceleration])
  ELSE StrategyOk(Append(NewtonSteps(vc, 1), "evaluate"),
                  [mass |-> mass, acceleration |-> acceleration],
                  FloatMul(mass, acceleration))

NewtonMatched(vc, match) ==
  IF ~match.ok
    THEN StrategyRaise("ValueError", "Invalid Newton's Second Law formula",
                       <<"parse">>, NoOperands)
  ELSE NewtonValues(vc, ParseFloat(match.groups[1]), ParseFloat(match.groups[2]))

_validate_newton_second_law(vs, f) ==
  NewtonMatched(value_constraints_of(vs, Newton), re_match(NewtonRegex, f))

KineticSteps(vc, n) ==
  ChecksMade(vc, <<MassConstraint, VelocityConstraint>>,
             <<"check mass", "check velocity">>, n)

\* kinetic_energy = 0.5 * mass * (velocity ** 2), square = velocity ** 2
KineticResult(vc, ops, square) ==
  IF square.raised
    THEN StrategyRaise("OverflowError", "(34, 'Numerical result out of range')",
                       Append(KineticSteps(vc, 2), "evaluate"), ops)
  ELSE StrategyOk(Append(KineticSteps(vc, 2), "evaluate"), ops,
                  FloatMul(FloatMul(Half, ops.mass), square.value))

\* the body of _validate_kinetic_energy after its two float() calls
KineticValues(vc, mass, velocity) ==
  IF InList(MassConstraint, vc) /\ LeZero(mass)
    THEN StrategyRaise("ValueError", MassError, KineticSteps(vc, 1),
                       [mass |-> mass, velocity |-> velocity])
  ELSE IF InList(VelocityConstraint, vc) /\ LtZero(velocity)
    THEN StrategyRaise("ValueError", VelocityError, KineticSteps(vc, 2),
                       [mass |-> mass, velocity |-> velocity])
  ELSE KineticResult(vc, [mass |-> mass, velocity |-> velocity],
                     FloatSquare(velocity))

KineticMatched(vc, match) ==
  IF ~match.ok
    THEN StrategyRaise("ValueError", "Invalid Kinetic Energy formula",
                       <<"parse">>, NoOperands)
  ELSE KineticValues(vc, ParseFloat(match.groups[1]), ParseFloat(match.groups[2]))

_validate_kinetic_energy(vs, f) ==
  KineticMatched(value_constraints_of(vs, Kinetic), re_match(KineticRegex, f))

OhmsSteps(vc, n) ==
  ChecksMade(vc, <<CurrentConstraint, ResistanceConstraint>>,
             <<"check current", "check resistance">>, n)

\* the body of _validate_ohms_law after its two float() calls
OhmsValues(vc, current, resistance) ==
  IF InList(CurrentConstraint, vc) /\ LtZero(current)
    THEN StrategyRaise("ValueError", CurrentError, OhmsSteps(vc, 1),
                       [current |-> current, resistance |-> resistance])
  ELSE IF InList(ResistanceConstraint, vc) /\ LeZero(resistance)
    THEN StrategyRaise("ValueError", ResistanceError, OhmsSteps(vc, 2),
                       [current |-> current, resistance |-> resistance])
  ELSE StrategyOk(Append(OhmsSteps(vc, 2), "evaluate"),
                  [current |-> current, resistance |-> resistance],
                  FloatMul(current, resistance))

OhmsMatched(vc, match) ==
  IF ~match.ok
    THEN StrategyRaise("ValueError", "Invalid Ohm's Law formula",
                       <<"parse">>, NoOperands)
  ELSE OhmsValues(vc, ParseFloat(match.groups[1]), ParseFloat(match.groups[2]))

_validate_ohms_law(vs, f) ==
  OhmsMatched(value_constraints_of(vs, Ohms), re_match(OhmsRegex, f))

IdealGasSteps(vc, n) ==
  ChecksMade(vc, <<MolesConstraint, GasConstantConstraint, TemperatureConstraint>>,
             <<"check n", "check R", "check T">>, n)

\* IdealGasValues with the gas constant checked before the moles
IdealGasValues_GasConstantFirst(vc, n, R, T) ==
  IF InList(GasConstantConstraint, vc) /\ LeZero(R)
    THEN StrategyRaise("ValueError", GasConstantError, IdealGasSteps(vc, 2),
                       [n |-> n, R |-> R, T |-> T])
  ELSE IF InList(MolesConstraint, vc) /\ LeZero(n)
    THEN StrategyRaise("ValueError", MolesError, IdealGasSteps(vc, 1),
                       [n |-> n, R |-> R, T |-> T])
  ELSE IF InList(TemperatureConstraint, vc) /\ LtZero(T)
    THEN StrategyRaise("ValueError", TemperatureError, IdealGasSteps(vc, 3),
                       [n |-> n, R |-> R, T |-> T])
  ELSE StrategyOk(Append(IdealGasSteps(vc, 3), "evaluate"),
                  [n |-> n, R |-> R, T |-> T],
                  FloatMul(FloatMul(n, R), T))

\* the body of _validate_ideal_gas_law after its three float() calls
IdealGasValues(vc, n, R, T) ==
  IF InList(MolesConstraint, vc) /\ LeZero(n)
    THEN StrategyRaise("ValueError", MolesError, IdealGasSteps(vc, 1),
                       [n |-> n, R |-> R, T |-> T])
  ELSE IF InList(GasConstantConstraint, vc) /\ LeZero(R)
    THEN StrategyRaise("ValueError", GasConstantError, IdealGasSteps(vc, 2),
                       [n |-> n, R |-> R, T |-> T])
  ELSE IF InList(TemperatureConstraint, vc) /\ LtZero(T)
    THEN StrategyRaise("ValueError", TemperatureError, IdealGasSteps(vc, 3),
                       [n |-> n, R |-> R, T |-> T])
  ELSE StrategyOk(Append(IdealGasSteps(vc, 3), "evaluate"),
                  [n |-> n, R |-> R, T |-> T],
                  FloatMul(FloatMul(n, R), T))

IdealGasMatched(vc, match) ==
  IF ~match.ok
    THEN StrategyRaise("ValueError", "Invalid Ideal Gas Law formula",
                       <<"parse">>, NoOperands)
  ELSE IdealGasValues(vc, ParseFloat(match.groups[1]), ParseFloat(match.groups[2]),
                      ParseFloat(match.groups[3]))

_validate_ideal_gas_law(vs, f) ==
  IdealGasMatched(value_constraints_of(vs, IdealGas), re_match(IdealGasRegex, f))

\* strategy(formula), strategy = validation_strategies.get(formula_type)
RunStrategy(vs, ft, stripped) ==
  CASE ft = Newton -> _validate_newton_second_law(vs, stripped)
    [] ft = Kinetic -> _validate_kinetic_energy(vs, stripped)
    [] ft = Ohms -> _validate_ohms_law(vs, stripped)
    [] ft = IdealGas -> _validate_ideal_gas_law(vs, stripped)
    [] OTHER -> StrategyRaise("ValueError", "No validation strategy found",
                              <<>>, NoOperands)

parse_and_validate_values(vs, ft, f) == RunStrategy(vs, ft, StripSpaces(f))

(***************************************************************************)
(* validate_formula: what the call hands to its caller.                    *)
(*   outcome.kind = "returned": the tuple (is_valid, message)              *)
(*   outcome.kind = "raised":   the exception exc left the call            *)
(* A message is [text, pattern, detail, value, notes]: the fixed text, the *)
(* pattern, str(e) or number formatted into it, and the lines joined after *)
(* it with "\n".                                                           *)
(***************************************************************************)
Message(text) ==
  [text |-> text, pattern |-> <<>>, detail |-> "", value |-> NoValue, notes |-> <<>>]

Returned(is_valid, message) ==
  [kind |-> "returned", is_valid |-> is_valid, message |-> message, exc |-> ""]

Raised(exc) ==
  [kind |-> "raised", is_valid |-> FALSE, message |-> Message(""), exc |-> exc]

NoOutcome == [kind |-> "none", is_valid |-> FALSE, message |-> Message(""), exc |-> ""]

Call(out, st, ops, value) ==
  [outcome |-> out, steps |-> st, operands |-> ops, result |-> value]

\* the success message: the result to two decimals, then the three lists
SuccessMessage(info, value) ==
  [text |-> "Calculation Successful! Result = ",
   pattern |-> <<>>,
   detail |-> "",
   value |-> Format2f(value),
   notes |-> info.validation_rules \o info.unit_constraints \o info.value_constraints]

\* the try block of validate_formula, r what parse_and_validate_values
\* returned or raised
TryBlock(info, r) ==
  IF r.status = "ok"
    THEN Call(Returned(TRUE, SuccessMessage(info, r.result)),
              <<"lookup", "pattern">> \o r.steps \o <<"message">>,
              r.operands, r.result)
  ELSE IF r.status = "ValueError"
    THEN Call(Returned(FALSE, Message(r.error)),
              <<"lookup", "pattern">> \o r.steps, r.operands, NoValue)
  ELSE Call(Returned(FALSE, [Message("Validation Error: ") EXCEPT !.detail = r.error]),
            <<"lookup", "pattern">> \o r.steps, r.operands, NoValue)

\* CheckPattern with the pattern matched against the formula as submitted,
\* its spaces not removed
CheckPattern_Unstripped(vs, ft, f, info) ==
  IF info.formula_pattern.none
    THEN Call(Raised("TypeError"), <<"lookup", "pattern">>, NoOperands, NoValue)
  ELSE IF ~re_match(info.formula_pattern.re, f).ok
    THEN Call(Returned(FALSE, [Message("Formula must match pattern: ") EXCEPT
                                 !.pattern = info.formula_pattern.re]),
              <<"lookup", "pattern">>, NoOperands, NoValue)
  ELSE TryBlock(info, parse_and_validate_values(vs, ft, f))

\* validate_formula from the pattern check on, info the record found
CheckPattern(vs, ft, f, info) ==
  IF info.formula_pattern.none
    \* re.match(None, ...) raises TypeError before the try block
    THEN Call(Raised("TypeError"), <<"lookup", "pattern">>, NoOperands, NoValue)
  ELSE IF ~re_match(info.formula_pattern.re, StripSpaces(f)).ok
    THEN Call(Returned(FALSE, [Message("Formula must match pattern: ") EXCEPT
                                 !.pattern = info.formula_pattern.re]),
              <<"lookup", "pattern">>, NoOperands, NoValue)
  ELSE TryBlock(info, parse_and_validate_values(vs, ft, f))

\* validate_formula with an unknown type falling back to the default type of
\* the route
validate_formula_DefaultType(vs, ft, f) ==
  IF ft \notin DOMAIN vs THEN CheckPattern(vs, Newton, f, vs[Newton])
  ELSE CheckPattern(vs, ft, f, vs[ft])

\* self.validators.get(formula_type) finds a record exactly for the keys
\* of the store
validate_formula(vs, ft, f) ==
  IF ft \notin DOMAIN vs
    THEN Call(Returned(FALSE, Message("Unsupported formula type")),
              <<"lookup">>, NoOperands, NoValue)
  ELSE CheckPattern(vs, ft, f, vs[ft])

(***************************************************************************)
(* The rule stores extract_all_validation_rules can build: one record per  *)
(* formula type, its properties read from the ontology.  formula_pattern   *)
(* is None when the individual has no hasFormulaPattern value.             *)
(***************************************************************************)
None == [none |-> TRUE, re |-> <<>>]
Pattern(re) == [none |-> FALSE, re |-> re]

ParserRegex(ft) ==
  CASE ft = Newton -> NewtonRegex
    [] ft = Kinetic -> KineticRegex
    [] ft = Ohms -> OhmsRegex
    [] ft = IdealGas -> IdealGasRegex

\* a pattern that only fixes the left-hand side: F=, KE=, V=, PV=
HeadRegex(ft) ==
  CASE ft = Newton -> <<Lit("F"), Lit("=")>>
    [] ft = Kinetic -> <<Lit("K"), Lit("E"), Lit("=")>>
    [] ft = Ohms -> <<Lit("V"), Lit("=")>>
    [] ft = IdealGas -> <<Lit("P"), Lit("V"), Lit("=")>>

Patterns(ft) == {None, Pattern(ParserRegex(ft)), Pattern(HeadRegex(ft))}

\* the constraint texts the strategy of ft looks for, in the order it
\* checks them
KnownConstraints(ft) ==
  CASE ft = Newton -> <<MassConstraint>>
    [] ft = Kinetic -> <<MassConstraint, VelocityConstraint>>
    [] ft = Ohms -> <<CurrentConstraint, ResistanceConstraint>>
    [] ft = IdealGas -> <<MolesConstraint, GasConstantConstraint, TemperatureConstraint>>

\* every list that holds some of the known texts of ft
ConstraintLists(ft) ==
  LET K == KnownConstraints(ft)
  IN {SelectSeq(K, LAMBDA c : \E i \in S : K[i] = c) : S \in SUBSET (1..Len(K))}

ValidationRules(ft) ==
  CASE ft = Newton -> <<"Force equals mass times acceleration">>
    [] ft = Kinetic -> <<"Kinetic energy equals half mass times velocity squared">>
    [] ft = Ohms -> <<"Voltage equals current times resistance">>
    [] ft = IdealGas -> <<"Pressure times volume equals n times R times T">>

UnitConstraints(ft) ==
  CASE ft = Newton -> <<"Mass in kg", "Acceleration in m/s^2">>
    [] ft = Kinetic -> <<"Mass in kg", "Velocity in m/s">>
    [] ft = Ohms -> <<"Current in A", "Resistance in ohm">>
    [] ft = IdealGas -> <<"Temperature in K">>

RuleRecord(ft, pattern, vc) ==
  [formula_pattern |-> pattern,
   validation_rules |-> ValidationRules(ft),
   unit_constraints |-> UnitConstraints(ft),
   value_constraints |-> vc]

RuleRecords(ft) ==
  {RuleRecord(ft, p, vc) : p \in Patterns(ft), vc \in ConstraintLists(ft)}

\* every property present, every constraint listed
FullStore ==
  [ft \in formula_validators |->
     RuleRecord(ft, Pattern(ParserRegex(ft)), KnownConstraints(ft))]

\* the full store with the record of one type replaced by any record
RuleStores ==
  {[FullStore EXCEPT ![ft] = r] : <<ft, r>> \in
     UNION {{<<t, rr>> : rr \in RuleRecords(t)} : t \in formula_validators}}

(***************************************************************************)
(* The requests of the model.                                              *)
(***************************************************************************)
FormulaTypes == formula_validators \cup {"FooValidator"}

IntLits == {<<DigitChars[n + 1]>> : n \in 0..MaxDigit}

\* 2e154: finite, its square is out of range
Huge == <<"2">> \o Repeat("0", 154)
\* 1e309: float() gives inf
TooBig == <<"1">> \o Repeat("0", 309)
\* 1e-331: float() gives 0.0
Tiny == <<"0", ".">> \o Repeat("0", 330) \o <<"1">>

FirstOperands == IntLits \cup {Tiny, <<"2", ".", "5">>}
SecondOperands == IntLits \cup {Huge, TooBig, <<"-", "3">>}

Product(head, a, b) == head \o a \o <<"*">> \o b

KineticHead == <<"K", "E", "=", "0", ".", "5", "*">>

WellFormed(as, bs) ==
  {Product(<<"F", "=">>, a, b) : a \in as, b \in bs}
  \cup {Product(<<"V", "=">>, a, b) : a \in as, b \in bs}
  \cup {Product(KineticHead, a, b) \o <<"^", "2">> : a \in as, b \in bs}

GasFormulas ==
  {Product(<<"P", "V", "=">>, n, R) \o <<"*">> \o T :
     n \in IntLits,
     R \in {<<"0">>, <<"8", ".", "3", "1", "4">>},
     T \in {<<"0">>, <<"3", "0", "0">>, <<"-", "5">>}}

Malformed ==
  {<<>>,
   <<"F", "=", "2", "+", "3">>,
   <<"F", "=", "2", "*">>,
   <<"F", "=", ".", "5", "*", "3">>,
   <<"F", "=", "2", "*", "3", ".">>,
   <<"F", "=", "2", "*", "3", "x">>,
   <<"V", "=", "-", "2", "*", "3">>,
   <<"K", "E", "=", "0", "x", "5", "*", "2", "*", "3", "^", "2">>,
   <<"K", "E", "=", "0", "\n", "5", "*", "2", "*", "3", "^", "2">>,
   <<"K", "E", "=", "0", ".", "5", "*", "2", "*", "3">>,
   <<"K", "E", "=", "0", ".", "5", "*", "2", "*", "0", ".", "1", "^", "2">>,
   <<"P", "V", "=", "1", "*", "8", ".", "3", "1", "4">>}

Plain == WellFormed(IntLits, IntLits) \cup GasFormulas \cup Malformed

\* c put before every character of f
RECURSIVE Interleave(_, _)
Interleave(c, f) ==
  IF f = <<>> THEN <<>> ELSE <<c, Head(f)>> \o Interleave(c, Tail(f))

\* c put after the first two characters of f
InsertAfterTwo(c, f) ==
  IF Len(f) < 2 THEN Append(f, c)
  ELSE SubSeq(f, 1, 2) \o <<c>> \o SubSeq(f, 3, Len(f))

\* the formulas also submitted with spaces, a tab or a newline added
Spaceable == WellFormed(IntLits, IntLits) \cup Malformed

Formulas ==
  WellFormed(FirstOperands, SecondOperands) \cup Plain
  \cup {Interleave(" ", f) : f \in Spaceable}
  \cup {InsertAfterTwo(" ", f) : f \in Spaceable}
  \cup {InsertAfterTwo("\t", f) : f \in Spaceable}
  \cup {Append(f, "\n") : f \in Spaceable}

(***************************************************************************)
(* A direct call of PhysicsFormulaValidator.validate_formula: the caller   *)
(* calls with a type and a formula, the call runs to its end, the caller   *)
(* takes the outcome.  steps, operands and result show the locals of the   *)
(* call.                                                                   *)
(***************************************************************************)
NoResponse ==
  [route |-> "", status |-> 0, is_valid |-> FALSE, message |-> Message(""),
   mastery_level |-> 0]

InitCommon ==
  /\ mastery_level = 0
  /\ pc = "idle"
  /\ formula_type = ""
  /\ formula = <<>>
  /\ outcome = NoOutcome
  /\ steps = <<>>
  /\ operands = NoOperands
  /\ result = NoValue
  /\ response = NoResponse
  /\ t_pc = [t \in 1..NumThreads |-> "idle"]
  /\ t_outcome = [t \in 1..NumThreads |-> NoOutcome]
  /\ t_tmp = [t \in 1..NumThreads |-> 0]
  /\ served = [ok |-> 0, bad |-> 0]

InitEngine == validators \in RuleStores /\ InitCommon

\* c is what the call did
Called(ft, f, c) ==
  /\ outcome' = c.outcome
  /\ steps' = c.steps
  /\ operands' = c.operands
  /\ result' = c.result
  /\ formula_type' = ft
  /\ formula' = f

CallValidate(ft, f) ==
  /\ pc = "idle"
  /\ Called(ft, f, validate_formula(validators, ft, f))
  /\ pc' = "returned"
  /\ UNCHANGED <<validators, mastery_level, response, t_pc, t_outcome, t_tmp, served>>

ReturnValidate ==
  /\ pc = "returned"
  /\ pc' = "idle"
  /\ formula_type' = ""
  /\ formula' = <<>>
  /\ outcome' = NoOutcome
  /\ steps' = <<>>
  /\ operands' = NoOperands
  /\ result' = NoValue
  /\ UNCHANGED <<validators, mastery_level, response, t_pc, t_outcome, t_tmp, served>>

NextEngine ==
  \/ \E ft \in FormulaTypes, f \in Formulas : CallValidate(ft, f)
  \/ ReturnValidate

SpecEngine == InitEngine /\ [][NextEngine]_vars

(***************************************************************************)
(* The Flask application, one request at a time.                           *)
(***************************************************************************)
Min(a, b) == IF a <= b THEN a ELSE b
Max(a, b) == IF a >= b THEN a ELSE b

\* UpdateMastery without the clamp of min and max
UpdateMastery_NoClamp(level, is_valid) ==
  IF is_valid THEN level + 10 ELSE level - 5

\* the new app_state.mastery_level after a validation that returned
UpdateMastery(level, is_valid) ==
  IF is_valid THEN Min(level + 10, 100) ELSE Max(level - 5, 0)

\* request.form.get('formula', '')
FormFormula(form) == IF form.has_formula THEN form.formula ELSE <<>>

\* request.form.get('formula_type', 'NewtonSecondLawValidator')
FormType(form) == IF form.has_type THEN form.formula_type ELSE Newton

JsonResponse(is_valid, message, level) ==
  [route |-> "validate", status |-> 200, is_valid |-> is_valid,
   message |-> message, mastery_level |-> level]

\* what Flask answers when the view function raises
ServerError(route) ==
  [route |-> route, status |-> 500, is_valid |-> FALSE, message |-> Message(""),
   mastery_level |-> 0]

RouteFormulas ==
  WellFormed({<<"0">>, <<"2">>}, {<<"3">>})
  \cup {<<>>,
        <<"F", "=", "2", "+", "3">>,
        <<"P", "V", "=", "1", "*", "8", ".", "3", "1", "4", "*", "3", "0", "0">>}

Forms ==
  {[has_type |-> TRUE, formula_type |-> ft, has_formula |-> TRUE, formula |-> f] :
     ft \in FormulaTypes, f \in RouteFormulas}
  \cup {[has_type |-> FALSE, formula_type |-> "", has_formula |-> TRUE, formula |-> f] :
          f \in RouteFormulas}
  \cup {[has_type |-> TRUE, formula_type |-> ft, has_formula |-> FALSE, formula |-> <<>>] :
          ft \in FormulaTypes}

\* the stores that differ from the full one in the Newton record only
RouteStores == {vs \in RuleStores : \A ft \in formula_validators \ {Newton} :
                                      vs[ft] = FullStore[ft]}

InitRoute == validators \in RouteStores /\ InitCommon

\* GET /
index ==
  /\ response' = [route |-> "index", status |-> 200, is_valid |-> FALSE,
                  message |-> Message(""), mastery_level |-> mastery_level]
  /\ UNCHANGED <<validators, mastery_level, pc, formula_type, formula, outcome,
                 steps, operands, result, t_pc, t_outcome, t_tmp, served>>

\* the view function after validate_formula has run: c is what that call did
UpdateAndRespond(c) ==
  IF c.outcome.kind = "raised"
    THEN /\ mastery_level' = mastery_level
         /\ response' = ServerError("validate")
    ELSE /\ mastery_level' = UpdateMastery(mastery_level, c.outcome.is_valid)
         /\ response' = JsonResponse(c.outcome.is_valid, c.outcome.message,
                                     UpdateMastery(mastery_level, c.outcome.is_valid))

Handled(ft, f, c) == Called(ft, f, c) /\ UpdateAndRespond(c)

\* POST /validate
validate_route(form) ==
  /\ Handled(FormType(form), FormFormula(form),
             validate_formula(validators, FormType(form), FormFormula(form)))
  /\ UNCHANGED <<validators, pc, t_pc, t_outcome, t_tmp, served>>

NextRoute ==
  \/ index
  \/ \E form \in Forms : validate_route(form)

SpecRoute == InitRoute /\ [][NextRoute]_vars

(***************************************************************************)
(* The Flask application with threaded request handling: the statement     *)
(*   app_state.mastery_level = min(app_state.mastery_level + 10, 100)      *)
(* loads the attribute, computes, and stores it, and another thread can    *)
(* run between the load and the store.  served counts the requests whose   *)
(* validation returned, by validity.                                       *)
(***************************************************************************)
Threads == 1..NumThreads

\* out is what validate_formula handed back to thread t
Validated(t, out) ==
  IF out.kind = "raised"
    THEN /\ response' = ServerError("validate")
         /\ UNCHANGED <<t_pc, t_outcome, served>>
    ELSE /\ t_outcome' = [t_outcome EXCEPT ![t] = out]
         /\ t_pc' = [t_pc EXCEPT ![t] = "load"]
         /\ served' = IF out.is_valid THEN [served EXCEPT !.ok = @ + 1]
                                      ELSE [served EXCEPT !.bad = @ + 1]
         /\ UNCHANGED response

t_validate(t, form) ==
  /\ t_pc[t] = "idle"
  /\ served.ok + served.bad < MaxRequests
  /\ Validated(t, validate_formula(validators, FormType(form), FormFormula(form)).outcome)
  /\ UNCHANGED <<validators, mastery_level, pc, formula_type, formula, outcome,
                 steps, operands, result, t_tmp>>

\* load app_state.mastery_level and compute the new value
t_load(t) ==
  /\ t_pc[t] = "load"
  /\ t_tmp' = [t_tmp EXCEPT ![t] = UpdateMastery(mastery_level, t_outcome[t].is_valid)]
  /\ t_pc' = [t_pc EXCEPT ![t] = "store"]
  /\ UNCHANGED <<validators, mastery_level, pc, formula_type, formula, outcome,
                 steps, operands, result, response, t_outcome, served>>

\* store it
t_store(t) ==
  /\ t_pc[t] = "store"
  /\ mastery_level' = t_tmp[t]
  /\ t_pc' = [t_pc EXCEPT ![t] = "respond"]
  /\ UNCHANGED <<validators, pc, formula_type, formula, outcome,
                 steps, operands, result, response, t_outcome, t_tmp, served>>

\* jsonify(...), which reads app_state.mastery_level again
t_respond(t) ==
  /\ t_pc[t] = "respond"
  /\ response' = JsonResponse(t_outcome[t].is_valid, t_outcome[t].message, mastery_level)
  /\ t_outcome' = [t_outcome EXCEPT ![t] = NoOutcome]
  /\ t_pc' = [t_pc EXCEPT ![t] = "idle"]
  /\ t_tmp' = [t_tmp EXCEPT ![t] = 0]
  /\ UNCHANGED <<validators, mastery_level, pc, formula_type, formula, outcome,
                 steps, operands, result, served>>

NextThreads ==
  \E t \in Threads :
    \/ \E form \in Forms : t_validate(t, form)
    \/ t_load(t)
    \/ t_store(t)
    \/ t_respond(t)

SpecThreads == InitRoute /\ [][NextThreads]_vars

\* the values the counter can have after ok successes and bad failures
\* applied one after another, in any order, starting from level
RECURSIVE SequentialResults(_, _, _)
SequentialResults(level, ok, bad) ==
  IF ok = 0 /\ bad = 0 THEN {level}
  ELSE (IF ok > 0 THEN SequentialResults(UpdateMastery(level, TRUE), ok - 1, bad)
                  ELSE {})
       \cup (IF bad > 0 THEN SequentialResults(UpdateMastery(level, FALSE), ok, bad - 1)
                        ELSE {})

(***************************************************************************)
(* Properties.  They read the state a call or a request left behind and    *)
(* state the expected values with the definitions of this section.         *)
(***************************************************************************)
Did(step) == \E i \in DOMAIN steps : steps[i] = step

\* the strategy of the call matched its regular expression
Parsed == pc = "returned" /\ DOMAIN operands # {}

\* text is in the value_constraints of the type of the call
Active(text) ==
  /\ formula_type \in DOMAIN validators
  /\ \E i \in DOMAIN validators[formula_type].value_constraints :
       validators[formula_type].value_constraints[i] = text

Positive(x) == ~x.neg /\ (x.k = "inf" \/ (x.k = "fin" /\ x.m > 0))
NonNegative(x) == x.k \in {"fin", "inf"} /\ (~x.neg \/ (x.k = "fin" /\ x.m = 0))

\* the checks of each type in the order of the specification: the operand,
\* the constraint text, the requirement, the message and the step
Requirements(ft) ==
  CASE ft = Newton ->
         <<[operand |-> "mass", text |-> MassConstraint, strict |-> TRUE,
            error |-> MassError, step |-> "check mass"]>>
    [] ft = Kinetic ->
         <<[operand |-> "mass", text |-> MassConstraint, strict |-> TRUE,
            error |-> MassError, step |-> "check mass"],
           [operand |-> "velocity", text |-> VelocityConstraint, strict |-> FALSE,
            error |-> VelocityError, step |-> "check velocity"]>>
    [] ft = Ohms ->
         <<[operand |-> "current", text |-> CurrentConstraint, strict |-> FALSE,
            error |-> CurrentError, step |-> "check current"],
           [operand |-> "resistance", text |-> ResistanceConstraint, strict |-> TRUE,
            error |-> ResistanceError, step |-> "check resistance"]>>
    [] ft = IdealGas ->
         <<[operand |-> "n", text |-> MolesConstraint, strict |-> TRUE,
            error |-> MolesError, step |-> "check n"],
           [operand |-> "R", text |-> GasConstantConstraint, strict |-> TRUE,
            error |-> GasConstantError, step |-> "check R"],
           [operand |-> "T", text |-> TemperatureConstraint, strict |-> FALSE,
            error |-> TemperatureError, step |-> "check T"]>>
    [] OTHER -> <<>>

Satisfies(ops, req) ==
  IF req.strict THEN Positive(ops[req.operand]) ELSE NonNegative(ops[req.operand])

\* the active requirements the operands of the call violate, in order
Violated ==
  SelectSeq(Requirements(formula_type),
            LAMBDA req : Active(req.text) /\ ~Satisfies(operands, req))

\* C1: validate_formula hands every failure back as (False, message); no
\* exception leaves the call, whatever the rule store holds.
C1_NoExceptionEscapes ==
  pc = "returned" => outcome.kind = "returned"

\* C2: a formula type that is no key of the rule store gets (False,
\* "Unsupported formula type") for every formula, and the call does nothing
\* after the lookup: no pattern check, parse, constraint check or evaluation.
C2_UnsupportedType ==
  (pc = "returned" /\ formula_type \notin formula_validators) =>
    /\ outcome = Returned(FALSE, Message("Unsupported formula type"))
    /\ steps = <<"lookup">>
    /\ DOMAIN operands = {}
    /\ result = NoValue

C2_Witness ==
  /\ pc = "returned"
  /\ formula_type = "FooValidator"
  /\ formula = <<"F", "=", "2", "*", "2">>
  /\ outcome.message.text = "Unsupported formula type"

\* C3: when the call returns is_valid = True, every operand whose constraint
\* text is listed satisfies it; and a Newton or Kinetic Energy formula whose
\* mass is <= 0, with the mass constraint listed, gets (False, "Mass must be
\* a positive number greater than 0") and no result.
C3_ActiveConstraintsHold ==
  Parsed =>
    /\ outcome.is_valid => Violated = <<>>
    /\ (/\ formula_type \in {Newton, Kinetic}
        /\ Active(MassConstraint)
        /\ ~Positive(operands.mass))
       => /\ outcome = Returned(FALSE, Message(MassError))
          /\ result = NoValue

C3_Witness ==
  /\ Parsed
  /\ formula_type = Kinetic
  /\ Active(MassConstraint)
  /\ operands.mass = Fin(FALSE, 0, 0)
  /\ outcome = Returned(FALSE, Message(MassError))

\* the six violations C4 names
NamedViolations ==
  {<<Kinetic, VelocityConstraint, VelocityError>>,
   <<Ohms, CurrentConstraint, CurrentError>>,
   <<Ohms, ResistanceConstraint, ResistanceError>>,
   <<IdealGas, MolesConstraint, MolesError>>,
   <<IdealGas, GasConstantConstraint, GasConstantError>>,
   <<IdealGas, TemperatureConstraint, TemperatureError>>}

\* C4: for each of the six named constraints, when its text is listed (and
\* the type has a pattern), some formula makes validate_formula return
\* (False, <the message of that constraint>).
C4_EachViolationReachable ==
  pc = "idle" =>
    \A v \in NamedViolations :
      (/\ ~validators[v[1]].formula_pattern.none
       /\ \E i \in DOMAIN validators[v[1]].value_constraints :
            validators[v[1]].value_constraints[i] = v[2])
      => \E f \in Formulas :
           validate_formula(validators, v[1], f).outcome = Returned(FALSE, Message(v[3]))

\* s without its spaces, tabs and newlines
WithoutWhitespace(s) == SelectSeq(s, LAMBDA c : c \notin {" ", "\t", "\n"})

\* s without its space characters
WithoutSpaces(s) == SelectSeq(s, LAMBDA c : c # " ")

WhitespaceClass == [f \in Formulas |-> WithoutWhitespace(f)]
SpaceClass == [f \in Formulas |-> WithoutSpaces(f)]

\* C5 as stated: two formulas that differ only in whitespace (spaces, tabs,
\* newlines) get identical outcomes for the same formula type.
C5_WhitespaceInsensitive ==
  pc = "returned" =>
    \A g \in Formulas :
      WhitespaceClass[g] = WhitespaceClass[formula] =>
        validate_formula(validators, formula_type, g).outcome = outcome

\* C5 amended: two formulas that differ only in space characters (U+0020)
\* get identical outcomes for the same formula type.
C5_SpaceInsensitive ==
  pc = "returned" =>
    \A g \in Formulas :
      SpaceClass[g] = SpaceClass[formula] =>
        validate_formula(validators, formula_type, g).outcome = outcome

C5_Witness ==
  /\ pc = "returned"
  /\ formula = <<" ", "F", " ", "=", " ", "2", " ", "*", " ", "2">>
  /\ formula_type = Newton
  /\ outcome.is_valid
  /\ <<"F", "=", "2", "*", "2">> \in Formulas

\* the literal shapes of section 4.2: the parser's patterns with the dot of
\* 0.5 a literal dot
LiteralShape(ft) ==
  CASE ft = Newton -> <<Lit("F"), Lit("="), Num, Lit("*"), Num>>
    [] ft = Kinetic ->
         <<Lit("K"), Lit("E"), Lit("="), Lit("0"), Lit("."), Lit("5"), Lit("*"),
           Num, Lit("*"), Num, Lit("^"), Lit("2")>>
    [] ft = Ohms -> <<Lit("V"), Lit("="), Num, Lit("*"), Num>>
    [] ft = IdealGas ->
         <<Lit("P"), Lit("V"), Lit("="), Num, Lit("*"), Num, Lit("*"), Num>>

\* C6: the parser of a type succeeds only on a string that, without its
\* spaces, starts with the literal shape of the type; any other string is
\* never evaluated to a result.
C6_ParserNeedsLiteralShape ==
  (pc = "returned" /\ formula_type \in formula_validators
     /\ (Parsed \/ Did("evaluate") \/ result # NoValue))
  => re_match(LiteralShape(formula_type), WithoutSpaces(formula)).ok

\* the documented formula applied to the operands
Documented(ft, ops) ==
  CASE ft = Newton -> FloatMul(ops.mass, ops.acceleration)
    [] ft = Kinetic -> FloatMul(FloatMul(Half, ops.mass), FloatMul(ops.velocity, ops.velocity))
    [] ft = Ohms -> FloatMul(ops.current, ops.resistance)
    [] ft = IdealGas -> FloatMul(FloatMul(ops.n, ops.R), ops.T)

\* C7: a formula that passes the pattern and the parser and violates no
\* listed constraint gets is_valid = True, the result of the documented
\* formula, and the message "Calculation Successful! Result = <result to 2
\* decimals>" followed by validation_rules, unit_constraints and
\* value_constraints in that order.
C7_ValidFormulaSucceeds ==
  (Parsed /\ Violated = <<>>) =>
    /\ outcome.kind = "returned"
    /\ outcome.is_valid
    /\ result = Documented(formula_type, operands)
    /\ outcome.message =
         [text |-> "Calculation Successful! Result = ",
          pattern |-> <<>>,
          detail |-> "",
          value |-> Format2f(Documented(formula_type, operands)),
          notes |-> validators[formula_type].validation_rules
                    \o validators[formula_type].unit_constraints
                    \o validators[formula_type].value_constraints]

\* C8: mastery_level starts at 0 and stays an integer in 0..100; a request to
\* /validate whose validation succeeded sets it to min(old + 10, 100), one
\* whose validation failed sets it to max(old - 5, 0), and nothing else
\* changes it.
C8_MasteryStep ==
  /\ mastery_level' \in 0..100
  /\ (response'.route = "validate" /\ response'.status = 200) =>
       /\ response'.is_valid =>
            mastery_level' = (IF mastery_level + 10 <= 100 THEN mastery_level + 10 ELSE 100)
       /\ ~response'.is_valid =>
            mastery_level' = (IF mastery_level - 5 >= 0 THEN mastery_level - 5 ELSE 0)
       /\ response'.mastery_level = mastery_level'
  /\ (response'.route # "validate" \/ response'.status # 200) =>
       mastery_level' = mastery_level

C8_MasteryBounded ==
  /\ mastery_level = 0
  /\ [][C8_MasteryStep]_vars

C8_Witness ==
  /\ response.route = "validate"
  /\ response.status = 200
  /\ response.is_valid
  /\ mastery_level = 100

\* C9: the checks of a type run in its fixed order and stop at the first
\* violation: the message is that of the earliest listed constraint the
\* operands violate, its check is the last step, and nothing is evaluated.
C9_FirstViolationWins ==
  (Parsed /\ Violated # <<>>) =>
    /\ outcome = Returned(FALSE, Message(Violated[1].error))
    /\ steps[Len(steps)] = Violated[1].step
    /\ ~Did("evaluate")
    /\ result = NoValue

C9_Witness ==
  /\ Parsed
  /\ formula_type = IdealGas
  /\ Len(Violated) = 2
  /\ Violated[1].error = MolesError
  /\ Violated[2].error = GasConstantError
  /\ outcome.message.text = MolesError

\* C10: with concurrent requests no update of mastery_level is lost: when no
\* request is in flight the counter is what the updates of the requests
\* served give when applied one after another in some order.
C10_NoLostUpdate ==
  (\A t \in Threads : t_pc[t] = "idle") =>
    mastery_level \in SequentialResults(0, served.ok, served.bad)

====
